---- MODULE Spec2Model ----
(***************************************************************************)
(* Model of the continuous adjustment engine of redshift (src/redshift.c,  *)
(* do_continous), its signal handlers and calculate_temp.                  *)
(*                                                                         *)
(* Time is counted in whole seconds.  The fade fraction adjustment_alpha   *)
(* is a float in the source; here it is the integer number of tenths       *)
(* (AlphaOne = 1.0), which is exact for the two transition lengths the     *)
(* program uses (10 s and 2 s) on a whole-second clock.  Float rounding    *)
(* is not modelled: arithmetic is exact and the conversion to int          *)
(* truncates.                                                              *)
(*                                                                         *)
(* The clock (systemtime_get_time) and the solar elevation                 *)
(* (solar_elevation) are inputs: the clock never runs backwards and is     *)
(* explored up to MaxTime, the elevation is chosen afresh on every tick.   *)
(* A signal may be delivered between any two steps of the loop; the read   *)
(* of a flag and the body that resets it are separate steps.               *)
(***************************************************************************)
EXTENDS Integers, Sequences, FiniteSets, TLC

\* ------------------------------------------------------------------ bounds
\* Largest clock reading (seconds after engine start) the model explores.
MaxTime == 12
\* calculate_temp is explored on the elevations
\* TRANSITION_LOW - ElevMargin .. TRANSITION_HIGH + ElevMargin.
ElevMargin == 3
\* Stop signals delivered during a fade are counted up to this number.
MaxStops == 2
\* Largest gamma ramp size the X server reports (in entries per channel).
MaxRampSize == 2

\* ------------------------------------------------------- program constants
MIN_TEMP == 1000
MAX_TEMP == 10000
DEFAULT_DAY_TEMP == 5500
DEFAULT_NIGHT_TEMP == 3700
\* SOLAR_CIVIL_TWILIGHT_ELEV of solar.h
TRANSITION_LOW == 0 - 6
TRANSITION_HIGH == 3
NEUTRAL_TEMP == 6500
\* adjustment_alpha = 1.0, in tenths
AlphaOne == 10

\* Gamma ramps are named by the colour temperature they were filled for;
\* the ramps in effect before the program changed them, and the content of
\* a ramp buffer nothing was stored in.
OriginalRamps == 0
UnsavedRamps == 0 - 1

\* gamma_method_t
GAMMA_METHOD_RANDR == 0
GAMMA_METHOD_VIDMODE == 1
GAMMA_METHOD_WINGDI == 2

MIN(x, y) == IF x < y THEN x ELSE y
MAX(x, y) == IF x > y THEN x ELSE y

VARIABLES
    \* rs_opts fields used by the engine
    transition, temp_day, temp_night,
    \* flags written by the signal handlers
    exiting, disable,
    \* transition state of do_continous
    short_trans_end, short_trans, short_trans_done,
    short_trans_create, short_trans_begin, short_trans_len,
    adjustment_alpha, done, disabled,
    \* locals of one loop iteration
    now, elevation, temp,
    \* environment: the wall clock, the length of the last sleep (ms)
    clock, slept,
    \* backend calls: the last two calls ever made, and the calls of the
    \* current loop iteration
    last_calls, iter_calls,
    \* history: number of stop signals delivered while a short transition
    \* was active (counted up to MaxStops)
    stops_in_fade,
    \* init_method: the method asked for on the command line (-1: none),
    \* opts->method, and the backend inits called with their outcome
    requested, method, init_calls,
    \* history of the current loop iteration: the control events the engine
    \* has handled in it ("stop_idle" marks a first stop handled while no
    \* short transition was active), and adjustment_alpha as it was before
    \* the first of them (-1 while none was handled)
    polled, alpha_before,
    \* history: 1 while a disable signal has been delivered since the engine
    \* last read the disable flag
    disable_unseen,
    \* the VidMode backend: vidmode_state_t's display connection ("null",
    \* "open", "closed"), ramp_size and saved_ramps buffer ("null",
    \* "allocated", "freed") with what the buffer holds, the gamma_ramps
    \* buffer of vidmode_set_temperature, the gamma ramps the X server has
    \* in effect (a temperature or OriginalRamps), and the value last
    \* returned by a backend function
    display, ramp_size, saved_ramps, saved_content, gamma_ramps, x_ramps, ret,
    \* position of the engine in do_continous / main
    pc

opts == <<transition, temp_day, temp_night>>
flags == <<exiting, disable>>
trans_state == <<short_trans_end, short_trans, short_trans_done,
                 short_trans_create, short_trans_begin, short_trans_len,
                 adjustment_alpha, done, disabled>>
locals == <<now, elevation, temp>>
backend == <<last_calls, iter_calls>>
startup == <<requested, method, init_calls>>
iteration == <<polled, alpha_before>>
vidmode == <<display, ramp_size, saved_ramps, saved_content, gamma_ramps,
             x_ramps, ret>>
vars == <<opts, flags, trans_state, locals, clock, slept, backend,
          stops_in_fade, startup, iteration, disable_unseen, vidmode, pc>>

\* Day/night temperature settings explored by the engine specification.
TempPairs == { <<DEFAULT_DAY_TEMP, DEFAULT_NIGHT_TEMP>>,
               <<MIN_TEMP, MAX_TEMP - 1>> }

\* Solar elevations (whole degrees) the engine may observe on a tick.
\* night, transition period, daytime.
Elevations == { TRANSITION_LOW - 1, 0 - 3, TRANSITION_HIGH }

\* ---------------------------------------------------------- pure functions

\* float -> int conversion of a non-negative quotient n/d: truncation.
TruncDiv(n, d) == n \div d

\* The interpolation fraction of calculate_temp,
\* a = (TRANSITION_LOW - elevation) / (TRANSITION_LOW - TRANSITION_HIGH),
\* as the quotient FractionNum(elevation) / FractionDen.
FractionDen == 0 - (TRANSITION_LOW - TRANSITION_HIGH)

\* Mutant: the fraction is measured from TRANSITION_HIGH downwards.
FractionNum_from_high(elev) == 0 - (elev - TRANSITION_HIGH)

FractionNum(elev) == 0 - (TRANSITION_LOW - elev)

\* Mutant: day and night temperature are swapped outside the transition
\* period.
calculate_temp_swapped(elev, t_day, t_night) ==
    IF elev < TRANSITION_LOW THEN t_day
    ELSE IF elev < TRANSITION_HIGH
         THEN LET an == FractionNum(elev)
                  ad == FractionDen
              IN  TruncDiv((ad - an) * t_night + an * t_day, ad)
         ELSE t_night

\* Mutant: the weights of the night and day temperature are exchanged.
calculate_temp_weights_exchanged(elev, t_day, t_night) ==
    IF elev < TRANSITION_LOW THEN t_night
    ELSE IF elev < TRANSITION_HIGH
         THEN LET an == FractionNum(elev)
                  ad == FractionDen
              IN  TruncDiv(an * t_night + (ad - an) * t_day, ad)
         ELSE t_day

\* calculate_temp: the interpolation fraction a is kept as numerator and
\* denominator (both negated to be non-negative).
calculate_temp(elev, t_day, t_night) ==
    IF elev < TRANSITION_LOW THEN t_night
    ELSE IF elev < TRANSITION_HIGH
         THEN LET an == FractionNum(elev)
                  ad == FractionDen
              IN  TruncDiv((ad - an) * t_night + an * t_day, ad)
         ELSE t_day

\* Mutant: the clamp is left out.
ClampAlpha_unclamped(a) == a

\* Clamp alpha value (MAX(0.0, MIN(adjustment_alpha, 1.0))).
ClampAlpha(a) == MAX(0, MIN(a, AlphaOne))

\* Mutant: the fraction is inverted for the wrong direction.
CalcAlpha_inverted(start, end, len, begin) ==
    LET raw == ((end - start) * AlphaOne) \div len
    IN  ClampAlpha(IF begin = 1 THEN AlphaOne - raw ELSE raw)

\* Calculate alpha of an ongoing short transition.
CalcAlpha(start, end, len, begin) ==
    LET raw == ((end - start) * AlphaOne) \div len
    IN  ClampAlpha(IF begin = 0 THEN AlphaOne - raw ELSE raw)

\* Interpolate between 6500K and calculated temperature.
\* The blend with the weight of the calculated temperature left at one.
Interpolate_weights_not_complementary(alpha, t) ==
    TruncDiv(alpha * NEUTRAL_TEMP + AlphaOne * t, AlphaOne)

Interpolate(alpha, t) ==
    TruncDiv(alpha * NEUTRAL_TEMP + (AlphaOne - alpha) * t, AlphaOne)

\* Mutant: the loop is left as soon as done is set.
QuitLoop_ignoring_transition(d, st) == d = 1

\* Quit loop when done.
QuitLoop(d, st) == d = 1 /\ st = 0

\* Mutant: the temperature is adjusted on every tick.
AdjustNeeded_always(dis, st) == TRUE

\* Condition under which the temperature is adjusted.
AdjustNeeded(dis, st) == dis = 0 \/ st = 1

\* A backend call is recorded in both call histories.
Called(c) ==
    /\ last_calls' = <<last_calls[2], c>>
    /\ iter_calls' = Append(iter_calls, c)

\* --------------------------------------------------------------- the engine

Init ==
    /\ transition \in {0, 1}
    /\ \E p \in TempPairs : temp_day = p[1] /\ temp_night = p[2]
    /\ exiting = 0 /\ disable = 0
    /\ short_trans_end = 0 /\ short_trans = 0 /\ short_trans_done = 0
    /\ short_trans_create = 1 /\ short_trans_begin = 1
    /\ short_trans_len = 10
    /\ adjustment_alpha = 0
    /\ done = 0 /\ disabled = 0
    /\ now = 0 /\ elevation = 0 /\ temp = 0
    /\ clock = 0 /\ slept = 0
    /\ last_calls = <<"none", "init">> /\ iter_calls = <<>>
    /\ stops_in_fade = 0
    /\ requested = 0 - 1 /\ method = GAMMA_METHOD_RANDR
    /\ init_calls = <<[m |-> GAMMA_METHOD_RANDR, ok |-> TRUE]>>
    /\ polled = {} /\ alpha_before = 0 - 1
    /\ disable_unseen = 0
    /\ display = "open" /\ ramp_size = 1
    /\ saved_ramps = "allocated" /\ saved_content = OriginalRamps
    /\ gamma_ramps = "null" /\ x_ramps = OriginalRamps /\ ret = 0
    /\ pc = "poll_disable"

Running == pc \notin {"returned", "freed", "exit_failure"}

\* Mutant: the handler itself marks the engine as done.
sigexit_sets_done ==
    /\ Running
    /\ exiting' = 1
    /\ done' = 1
    /\ stops_in_fade' = IF short_trans = 1
                        THEN MIN(stops_in_fade + 1, MaxStops)
                        ELSE stops_in_fade
    /\ UNCHANGED <<opts, disable, short_trans_end, short_trans, short_trans_done,
                   short_trans_create, short_trans_begin, short_trans_len,
                   adjustment_alpha, disabled, locals, clock, slept, backend, pc>>
    /\ UNCHANGED <<startup, vidmode, iteration, disable_unseen>>

\* Signal handler for exit signals.
sigexit ==
    /\ Running
    /\ exiting' = 1
    /\ stops_in_fade' = IF short_trans = 1
                        THEN MIN(stops_in_fade + 1, MaxStops)
                        ELSE stops_in_fade
    /\ UNCHANGED <<opts, disable, trans_state, locals, clock, slept, backend, pc>>
    /\ UNCHANGED <<startup, vidmode, iteration, disable_unseen>>

\* Signal handler for disable signal.
sigdisable ==
    /\ Running
    /\ disable' = 1
    /\ disable_unseen' = 1
    /\ UNCHANGED <<opts, exiting, trans_state, locals, clock, slept, backend,
                   stops_in_fade, startup, vidmode, iteration, pc>>

\* if (disable): the read of the flag.
PollDisable ==
    /\ pc = "poll_disable"
    /\ pc' = IF disable = 1 THEN "handle_disable" ELSE "poll_exiting"
    /\ disable_unseen' = 0
    /\ UNCHANGED <<stops_in_fade, startup, vidmode, iteration>>
    /\ UNCHANGED <<opts, flags, trans_state, locals, clock, slept, backend>>

\* Mutant: re-enabling fades towards neutral like disabling does.
HandleDisable_wrong_direction ==
    /\ pc = "handle_disable"
    /\ short_trans_create' = 1
    /\ short_trans_len' = 2
    /\ IF disabled = 0
       THEN short_trans_begin' = 0 /\ adjustment_alpha' = AlphaOne /\ disabled' = 1
       ELSE short_trans_begin' = 0 /\ adjustment_alpha' = AlphaOne /\ disabled' = 0
    /\ disable' = 0
    /\ pc' = "poll_exiting"
    /\ polled' = polled \cup {"disable"}
    /\ alpha_before' = adjustment_alpha
    /\ UNCHANGED <<stops_in_fade, startup, vidmode, disable_unseen>>
    /\ UNCHANGED <<opts, exiting, short_trans_end, short_trans, short_trans_done,
                   done, locals, clock, slept, backend>>

\* Body of if (disable), ending with disable = 0.
HandleDisable ==
    /\ pc = "handle_disable"
    /\ short_trans_create' = 1
    /\ short_trans_len' = 2
    /\ IF disabled = 0
       THEN short_trans_begin' = 0 /\ adjustment_alpha' = AlphaOne /\ disabled' = 1
       ELSE short_trans_begin' = 1 /\ adjustment_alpha' = 0 /\ disabled' = 0
    /\ disable' = 0
    /\ pc' = "poll_exiting"
    /\ polled' = polled \cup {"disable"}
    /\ alpha_before' = adjustment_alpha
    /\ UNCHANGED <<stops_in_fade, startup, vidmode, disable_unseen>>
    /\ UNCHANGED <<opts, exiting, short_trans_end, short_trans, short_trans_done,
                   done, locals, clock, slept, backend>>

\* if (exiting): the read of the flag.
PollExiting ==
    /\ pc = "poll_exiting"
    /\ pc' = IF exiting = 1 THEN "handle_exiting" ELSE "read_time"
    /\ UNCHANGED <<stops_in_fade, startup, vidmode, iteration, disable_unseen>>
    /\ UNCHANGED <<opts, flags, trans_state, locals, clock, slept, backend>>

\* Body of if (exiting), ending with exiting = 0.
HandleExiting ==
    /\ pc = "handle_exiting"
    /\ IF done = 1
       THEN /\ short_trans' = 0
            /\ UNCHANGED <<short_trans_create, short_trans_begin,
                           short_trans_len, adjustment_alpha, done>>
       ELSE /\ IF disabled = 0
               THEN /\ short_trans_create' = 1
                    /\ short_trans_begin' = 0
                    /\ short_trans_len' = 2
                    /\ adjustment_alpha' = AlphaOne
               ELSE UNCHANGED <<short_trans_create, short_trans_begin,
                                short_trans_len, adjustment_alpha>>
            /\ done' = 1
            /\ UNCHANGED short_trans
    /\ exiting' = 0
    /\ pc' = "read_time"
    /\ polled' = polled \cup {IF done = 1 THEN "stop_again" ELSE "stop"}
                      \cup (IF done = 0 /\ short_trans = 0
                               THEN {"stop_idle"} ELSE {})
    /\ alpha_before' = IF polled = {} THEN adjustment_alpha ELSE alpha_before
    /\ UNCHANGED <<stops_in_fade, startup, vidmode, disable_unseen>>
    /\ UNCHANGED <<opts, disable, short_trans_end, short_trans_done, disabled,
                   locals, clock, slept, backend>>

\* Read timestamp; on failure free the backend and exit.
ReadTime ==
    /\ pc = "read_time"
    /\ \/ /\ now' = clock
          /\ pc' = "setup"
          /\ UNCHANGED backend
       \/ /\ Called("free")
          /\ pc' = "exit_failure"
          /\ UNCHANGED now
    /\ UNCHANGED <<stops_in_fade, startup, vidmode, iteration, disable_unseen>>
    /\ UNCHANGED <<opts, flags, trans_state, elevation, temp, clock, slept>>

\* Mutant: the request for a new transition is not cleared once served.
SetupTransition_create_kept ==
    /\ pc = "setup"
    /\ IF short_trans_create = 1
       THEN IF transition = 1
            THEN /\ short_trans_end' = now + short_trans_len
                 /\ short_trans' = 1
                 /\ short_trans_create' = short_trans_create
                 /\ UNCHANGED short_trans_done
            ELSE /\ short_trans_done' = 1
                 /\ UNCHANGED <<short_trans_end, short_trans, short_trans_create>>
       ELSE UNCHANGED <<short_trans_end, short_trans, short_trans_create,
                        short_trans_done>>
    /\ \E e \in Elevations :
          /\ elevation' = e
          /\ temp' = calculate_temp(e, temp_day, temp_night)
    /\ pc' = "ongoing"
    /\ UNCHANGED <<stops_in_fade, startup, vidmode, iteration, disable_unseen>>
    /\ UNCHANGED <<opts, flags, short_trans_begin, short_trans_len,
                   adjustment_alpha, done, disabled, now, clock, slept, backend>>

\* Set up a new transition, then compute elevation and temperature.
SetupTransition ==
    /\ pc = "setup"
    /\ IF short_trans_create = 1
       THEN IF transition = 1
            THEN /\ short_trans_end' = now + short_trans_len
                 /\ short_trans' = 1
                 /\ short_trans_create' = 0
                 /\ UNCHANGED short_trans_done
            ELSE /\ short_trans_done' = 1
                 /\ UNCHANGED <<short_trans_end, short_trans, short_trans_create>>
       ELSE UNCHANGED <<short_trans_end, short_trans, short_trans_create,
                        short_trans_done>>
    /\ \E e \in Elevations :
          /\ elevation' = e
          /\ temp' = calculate_temp(e, temp_day, temp_night)
    /\ pc' = "ongoing"
    /\ UNCHANGED <<stops_in_fade, startup, vidmode, iteration, disable_unseen>>
    /\ UNCHANGED <<opts, flags, short_trans_begin, short_trans_len,
                   adjustment_alpha, done, disabled, now, clock, slept, backend>>

\* Ongoing short transition.
OngoingTransition ==
    /\ pc = "ongoing"
    /\ IF short_trans = 1
       THEN /\ IF now > short_trans_end
               THEN short_trans' = 0 /\ short_trans_done' = 1
               ELSE UNCHANGED <<short_trans, short_trans_done>>
            /\ adjustment_alpha' = CalcAlpha(now, short_trans_end,
                                             short_trans_len, short_trans_begin)
       ELSE UNCHANGED <<short_trans, short_trans_done, adjustment_alpha>>
    /\ pc' = "end_transition"
    /\ UNCHANGED <<stops_in_fade, startup, vidmode, iteration, disable_unseen>>
    /\ UNCHANGED <<opts, flags, short_trans_end, short_trans_create,
                   short_trans_begin, short_trans_len, done, disabled,
                   locals, clock, slept, backend>>

\* Handle end of transition.
EndTransition ==
    /\ pc = "end_transition"
    /\ IF short_trans_done = 1
       THEN /\ IF disabled = 1 THEN Called("restore") ELSE UNCHANGED backend
            /\ short_trans_done' = 0
       ELSE UNCHANGED <<backend, short_trans_done>>
    /\ pc' = "interpolate"
    /\ UNCHANGED <<stops_in_fade, startup, vidmode, iteration, disable_unseen>>
    /\ UNCHANGED <<opts, flags, short_trans_end, short_trans, short_trans_create,
                   short_trans_begin, short_trans_len, adjustment_alpha,
                   done, disabled, locals, clock, slept>>

\* Interpolate the temperature, then quit the loop when done.
InterpolateAndCheck ==
    /\ pc = "interpolate"
    /\ temp' = Interpolate(adjustment_alpha, temp)
    /\ pc' = IF QuitLoop(done, short_trans) THEN "final_restore" ELSE "adjust"
    /\ UNCHANGED <<stops_in_fade, startup, vidmode, iteration, disable_unseen>>
    /\ UNCHANGED <<opts, flags, trans_state, now, elevation, clock, slept, backend>>

\* Adjust temperature; on failure free the backend and exit.
AdjustTemperature ==
    /\ pc = "adjust"
    /\ IF AdjustNeeded(disabled, short_trans)
       THEN \/ /\ Called("set_temperature")
               /\ pc' = "sleep"
            \/ /\ iter_calls' = iter_calls \o <<"set_temperature", "free">>
               /\ last_calls' = <<"set_temperature", "free">>
               /\ pc' = "exit_failure"
       ELSE /\ pc' = "sleep"
            /\ UNCHANGED backend
    /\ UNCHANGED <<stops_in_fade, startup, vidmode, iteration, disable_unseen>>
    /\ UNCHANGED <<opts, flags, trans_state, locals, clock, slept>>

\* The two cadences exchanged.
SleepLen_exchanged == IF short_trans = 1 THEN 5000 ELSE 100

\* Sleep for a while: 100 ms during a short transition, 5 s otherwise.
\* The iteration's locals go out of scope.
SleepLen == IF short_trans = 1 THEN 100 ELSE 5000

EndIteration ==
    /\ now' = 0 /\ elevation' = 0 /\ temp' = 0
    /\ iter_calls' = <<>>
    /\ slept' = SleepLen
    /\ pc' = "poll_disable"
    /\ polled' = {} /\ alpha_before' = 0 - 1
    /\ UNCHANGED <<opts, flags, trans_state, last_calls, stops_in_fade,
                   startup, vidmode, disable_unseen>>

Sleep ==
    /\ pc = "sleep"
    /\ \E d \in 1..(MaxTime - clock) : clock' = clock + d
    /\ EndIteration

\* usleep returns early when a signal was caught.
SleepInterrupted ==
    /\ pc = "sleep"
    /\ exiting = 1 \/ disable = 1
    /\ clock' = clock
    /\ EndIteration

\* Restore saved gamma ramps after the loop and return.
FinalRestore ==
    /\ pc = "final_restore"
    /\ Called("restore")
    /\ pc' = "returned"
    /\ UNCHANGED <<stops_in_fade, startup, vidmode, iteration, disable_unseen>>
    /\ UNCHANGED <<opts, flags, trans_state, locals, clock, slept>>

\* main: clean up gamma adjustment state after the engine returned.
MainFree ==
    /\ pc = "returned"
    /\ Called("free")
    /\ pc' = "freed"
    /\ UNCHANGED <<stops_in_fade, startup, vidmode, iteration, disable_unseen>>
    /\ UNCHANGED <<opts, flags, trans_state, locals, clock, slept>>

Engine ==
    \/ PollDisable \/ HandleDisable \/ PollExiting \/ HandleExiting
    \/ ReadTime \/ SetupTransition \/ OngoingTransition \/ EndTransition
    \/ InterpolateAndCheck \/ AdjustTemperature
    \/ Sleep \/ SleepInterrupted \/ FinalRestore \/ MainFree

Next == sigexit \/ sigdisable \/ Engine

Spec == Init /\ [][Next]_vars

\* The engine is a running process: it always takes its next step, and a
\* sleep ends (with the clock advanced, while the explored time lasts).
LiveSpec == Init /\ [][Next]_vars /\ WF_vars(Engine)

\* ------------------------------------------------- main in one-shot mode

\* main after parse_options with one_shot set: init_method, do_oneshot, free.
\* All three backends are taken as compiled in (ENABLE_RANDR, ENABLE_VIDMODE,
\* ENABLE_WINGDI); -m selects one of them, no -m leaves method at -1.
Methods == {GAMMA_METHOD_RANDR, GAMMA_METHOD_VIDMODE, GAMMA_METHOD_WINGDI}

MainInit ==
    /\ transition \in {0, 1}
    /\ \E p \in TempPairs : temp_day = p[1] /\ temp_night = p[2]
    /\ exiting = 0 /\ disable = 0
    /\ short_trans_end = 0 /\ short_trans = 0 /\ short_trans_done = 0
    /\ short_trans_create = 1 /\ short_trans_begin = 1
    /\ short_trans_len = 10
    /\ adjustment_alpha = 0
    /\ done = 0 /\ disabled = 0
    /\ now = 0 /\ elevation = 0 /\ temp = 0
    /\ clock \in {0, MaxTime} /\ slept = 0
    /\ last_calls = <<"none", "none">> /\ iter_calls = <<>>
    /\ stops_in_fade = 0
    /\ requested \in {0 - 1} \cup Methods /\ method = requested
    /\ init_calls = <<>>
    /\ polled = {} /\ alpha_before = 0 - 1
    /\ disable_unseen = 0
    /\ display = "open" /\ ramp_size = 1
    /\ saved_ramps = "allocated" /\ saved_content = OriginalRamps
    /\ gamma_ramps = "null" /\ x_ramps = OriginalRamps /\ ret = 0
    /\ pc = "init_randr"

\* One block of init_method with its guard dropped: the backend's init is
\* called whatever *method holds.
InitBackend_unguarded(m, next) ==
    /\ \E ok \in BOOLEAN :
          /\ init_calls' = Append(init_calls, [m |-> m, ok |-> ok])
          /\ IF ok
                THEN method' = m /\ pc' = next
                ELSE /\ method' = method
                     /\ pc' = IF method < 0 THEN next ELSE "exit_failure"
    /\ UNCHANGED requested

\* One block of init_method for backend m: skipped unless no method is set
\* or m is the method set; the init may fail or succeed; a failure is fatal
\* when a method is set, a success stores m in *method.
InitBackend(m, next) ==
    /\ IF method < 0 \/ method = m
          THEN \E ok \in BOOLEAN :
                  /\ init_calls' = Append(init_calls, [m |-> m, ok |-> ok])
                  /\ IF ok
                        THEN method' = m /\ pc' = next
                        ELSE /\ method' = method
                             /\ pc' = IF method < 0 THEN next
                                                    ELSE "exit_failure"
          ELSE /\ pc' = next
               /\ UNCHANGED <<method, init_calls>>
    /\ UNCHANGED requested

InitRest ==
    UNCHANGED <<opts, flags, trans_state, locals, clock, slept, backend,
                stops_in_fade, iteration, disable_unseen, vidmode>>

InitRandr ==
    /\ pc = "init_randr"
    /\ InitBackend(GAMMA_METHOD_RANDR, "init_vidmode")
    /\ InitRest

InitVidmode ==
    /\ pc = "init_vidmode"
    /\ InitBackend(GAMMA_METHOD_VIDMODE, "init_wingdi")
    /\ InitRest

InitWingdi ==
    /\ pc = "init_wingdi"
    /\ InitBackend(GAMMA_METHOD_WINGDI, "init_check")
    /\ InitRest

\* init_method: failure if no method was successful at this point.
InitCheck ==
    /\ pc = "init_check"
    /\ pc' = IF method < 0 THEN "exit_failure" ELSE "oneshot_time"
    /\ UNCHANGED startup
    /\ InitRest

\* do_oneshot: read the clock; on failure free the backend and exit.
OneShotTime ==
    /\ pc = "oneshot_time"
    /\ \/ /\ now' = clock
          /\ pc' = "oneshot_calc"
          /\ UNCHANGED backend
       \/ /\ Called("free")
          /\ pc' = "exit_failure"
          /\ UNCHANGED now
    /\ UNCHANGED <<opts, flags, trans_state, elevation, temp, clock, slept,
                   stops_in_fade, startup, vidmode, iteration, disable_unseen>>

\* do_oneshot: solar elevation of the instant read, and its temperature.
OneShotCalc ==
    /\ pc = "oneshot_calc"
    /\ \E e \in Elevations :
          /\ elevation' = e
          /\ temp' = calculate_temp(e, temp_day, temp_night)
    /\ pc' = "oneshot_adjust"
    /\ UNCHANGED <<opts, flags, trans_state, now, clock, slept, backend,
                   stops_in_fade, startup, vidmode, iteration, disable_unseen>>

\* do_oneshot as continuous mode leaves: the saved ramps are restored
\* after the adjustment.
OneShotAdjust_then_restore ==
    /\ pc = "oneshot_adjust"
    /\ iter_calls' = iter_calls \o <<"set_temperature", "restore">>
    /\ last_calls' = <<"set_temperature", "restore">>
    /\ pc' = "returned"
    /\ UNCHANGED <<opts, flags, trans_state, locals, clock, slept,
                   stops_in_fade, startup, vidmode, iteration, disable_unseen>>

\* do_oneshot: adjust the temperature; on failure free the backend and
\* exit, otherwise return to main.
OneShotAdjust ==
    /\ pc = "oneshot_adjust"
    /\ \/ /\ Called("set_temperature")
          /\ pc' = "returned"
       \/ /\ iter_calls' = iter_calls \o <<"set_temperature", "free">>
          /\ last_calls' = <<"set_temperature", "free">>
          /\ pc' = "exit_failure"
    /\ UNCHANGED <<opts, flags, trans_state, locals, clock, slept,
                   stops_in_fade, startup, vidmode, iteration, disable_unseen>>

MainNext ==
    \/ InitRandr \/ InitVidmode \/ InitWingdi \/ InitCheck
    \/ OneShotTime \/ OneShotCalc \/ OneShotAdjust \/ MainFree

MainSpec == MainInit /\ [][MainNext]_vars

\* calculate_temp on its own: day and night temperature and the elevation
\* range over CalcTemps and CalcElevations.
CalcTemps == {MIN_TEMP, DEFAULT_NIGHT_TEMP, DEFAULT_DAY_TEMP, NEUTRAL_TEMP,
              MAX_TEMP - 1}
CalcElevations == (TRANSITION_LOW - ElevMargin)..(TRANSITION_HIGH + ElevMargin)

CalcInit ==
    /\ transition = 1
    /\ temp_day \in CalcTemps /\ temp_night \in CalcTemps
    /\ exiting = 0 /\ disable = 0
    /\ short_trans_end = 0 /\ short_trans = 0 /\ short_trans_done = 0
    /\ short_trans_create = 1 /\ short_trans_begin = 1
    /\ short_trans_len = 10
    /\ adjustment_alpha = 0
    /\ done = 0 /\ disabled = 0
    /\ now = 0 /\ elevation = 0 /\ temp = 0
    /\ clock = 0 /\ slept = 0
    /\ last_calls = <<"none", "init">> /\ iter_calls = <<>>
    /\ stops_in_fade = 0
    /\ requested = 0 - 1 /\ method = GAMMA_METHOD_RANDR
    /\ init_calls = <<[m |-> GAMMA_METHOD_RANDR, ok |-> TRUE]>>
    /\ polled = {} /\ alpha_before = 0 - 1
    /\ disable_unseen = 0
    /\ display = "open" /\ ramp_size = 1
    /\ saved_ramps = "allocated" /\ saved_content = OriginalRamps
    /\ gamma_ramps = "null" /\ x_ramps = OriginalRamps /\ ret = 0
    /\ pc = "calc"

\* Use elevation of sun to set color temperature.
CalcStep ==
    /\ pc \in {"calc", "calc_done"}
    /\ \E e \in CalcElevations :
          /\ elevation' = e
          /\ temp' = calculate_temp(e, temp_day, temp_night)
    /\ pc' = "calc_done"
    /\ UNCHANGED <<opts, flags, trans_state, now, clock, slept, backend,
                   stops_in_fade, startup, vidmode, iteration, disable_unseen>>

CalcNext == CalcStep

CalcSpec == CalcInit /\ [][CalcNext]_vars

\* ------------------------------------------------------ the VidMode backend

\* vidmode_init, then any sequence of vidmode_set_temperature and
\* vidmode_restore calls, then vidmode_free. Each X request and each malloc
\* may fail.
VidmodeRest ==
    UNCHANGED <<opts, flags, trans_state, now, elevation, clock, slept,
                backend, stops_in_fade, startup, iteration, disable_unseen>>

VidmodeInit ==
    /\ transition = 1
    /\ temp_day = DEFAULT_DAY_TEMP /\ temp_night = DEFAULT_NIGHT_TEMP
    /\ exiting = 0 /\ disable = 0
    /\ short_trans_end = 0 /\ short_trans = 0 /\ short_trans_done = 0
    /\ short_trans_create = 1 /\ short_trans_begin = 1
    /\ short_trans_len = 10
    /\ adjustment_alpha = 0
    /\ done = 0 /\ disabled = 0
    /\ now = 0 /\ elevation = 0 /\ temp = 0
    /\ clock = 0 /\ slept = 0
    /\ last_calls = <<"none", "none">> /\ iter_calls = <<>>
    /\ stops_in_fade = 0
    /\ requested = GAMMA_METHOD_VIDMODE /\ method = GAMMA_METHOD_VIDMODE
    /\ init_calls = <<>>
    /\ polled = {} /\ alpha_before = 0 - 1
    /\ disable_unseen = 0
    /\ display = "null" /\ ramp_size = 0
    /\ saved_ramps = "null" /\ saved_content = UnsavedRamps
    /\ gamma_ramps = "null" /\ x_ramps = OriginalRamps /\ ret = 0
    /\ pc = "vm_open"

\* A failure path of vidmode_init: XCloseDisplay and return -1.
CloseAndFail ==
    /\ display' = "closed"
    /\ ret' = 0 - 1
    /\ pc' = "vm_init_failed"

\* vidmode_init: open display.
VmOpenDisplay ==
    /\ pc = "vm_open"
    /\ \/ /\ display' = "open"
          /\ pc' = "vm_query"
          /\ UNCHANGED ret
       \/ /\ ret' = 0 - 1
          /\ pc' = "vm_init_failed"
          /\ UNCHANGED display
    /\ UNCHANGED <<ramp_size, saved_ramps, saved_content, gamma_ramps,
                   x_ramps, temp>>
    /\ VidmodeRest

\* vidmode_init: query extension version.
VmQueryVersion ==
    /\ pc = "vm_query"
    /\ \/ /\ pc' = "vm_ramp_size"
          /\ UNCHANGED <<display, ret>>
       \/ CloseAndFail
    /\ UNCHANGED <<ramp_size, saved_ramps, saved_content, gamma_ramps,
                   x_ramps, temp>>
    /\ VidmodeRest

\* vidmode_init: request size of gamma ramps.
VmGetRampSize ==
    /\ pc = "vm_ramp_size"
    /\ \/ /\ \E n \in 0..MaxRampSize : ramp_size' = n
          /\ pc' = "vm_check_size"
          /\ UNCHANGED <<display, ret>>
       \/ /\ CloseAndFail
          /\ UNCHANGED ramp_size
    /\ UNCHANGED <<saved_ramps, saved_content, gamma_ramps, x_ramps, temp>>
    /\ VidmodeRest

\* vidmode_init: gamma ramp size too small.
VmCheckSize ==
    /\ pc = "vm_check_size"
    /\ IF ramp_size = 0
          THEN CloseAndFail
          ELSE /\ pc' = "vm_alloc"
               /\ UNCHANGED <<display, ret>>
    /\ UNCHANGED <<ramp_size, saved_ramps, saved_content, gamma_ramps,
                   x_ramps, temp>>
    /\ VidmodeRest

\* vidmode_init: allocate space for saved gamma ramps.
VmAllocSaved ==
    /\ pc = "vm_alloc"
    /\ \/ /\ saved_ramps' = "allocated"
          /\ saved_content' = UnsavedRamps
          /\ pc' = "vm_save"
          /\ UNCHANGED <<display, ret>>
       \/ /\ CloseAndFail
          /\ UNCHANGED <<saved_ramps, saved_content>>
    /\ UNCHANGED <<ramp_size, gamma_ramps, x_ramps, temp>>
    /\ VidmodeRest

\* vidmode_init: save current gamma ramps so they can be restored at
\* program exit; on failure close the display and return -1.
VmSaveRamps ==
    /\ pc = "vm_save"
    /\ \/ /\ saved_content' = x_ramps
          /\ ret' = 0
          /\ pc' = "vm_ready"
          /\ UNCHANGED <<display, saved_ramps>>
       \/ /\ CloseAndFail
          /\ UNCHANGED <<saved_ramps, saved_content>>
    /\ UNCHANGED <<ramp_size, gamma_ramps, x_ramps, temp>>
    /\ VidmodeRest

\* The caller calls vidmode_set_temperature with a temperature.
VmCallSetTemperature ==
    /\ pc = "vm_ready"
    /\ \E t \in CalcTemps : temp' = t
    /\ pc' = "vm_set_alloc"
    /\ UNCHANGED vidmode
    /\ VidmodeRest

\* vidmode_set_temperature: create new gamma ramps.
VmSetAlloc ==
    /\ pc = "vm_set_alloc"
    /\ \/ /\ gamma_ramps' = "allocated"
          /\ pc' = "vm_set_ramp"
          /\ UNCHANGED ret
       \/ /\ gamma_ramps' = "null"
          /\ ret' = 0 - 1
          /\ pc' = "vm_ready"
    /\ UNCHANGED <<display, ramp_size, saved_ramps, saved_content, x_ramps,
                   temp>>
    /\ VidmodeRest

\* vidmode_set_temperature returning from a failed X request with the
\* buffer still allocated.
VmSetRamp_leaking_on_failure ==
    /\ pc = "vm_set_ramp"
    /\ \/ /\ x_ramps' = temp
          /\ gamma_ramps' = "freed"
          /\ ret' = 0
       \/ /\ ret' = 0 - 1
          /\ UNCHANGED <<x_ramps, gamma_ramps>>
    /\ pc' = "vm_ready"
    /\ UNCHANGED <<display, ramp_size, saved_ramps, saved_content, temp>>
    /\ VidmodeRest

\* vidmode_set_temperature: fill the new ramps and set them; the buffer is
\* freed whether the X request fails or not.
VmSetRamp ==
    /\ pc = "vm_set_ramp"
    /\ \/ /\ x_ramps' = temp
          /\ gamma_ramps' = "freed"
          /\ ret' = 0
       \/ /\ gamma_ramps' = "freed"
          /\ ret' = 0 - 1
          /\ UNCHANGED x_ramps
    /\ pc' = "vm_ready"
    /\ UNCHANGED <<display, ramp_size, saved_ramps, saved_content, temp>>
    /\ VidmodeRest

\* vidmode_restore: set the saved ramps; a failure is only reported.
VmRestore ==
    /\ pc = "vm_ready"
    /\ \/ x_ramps' = saved_content
       \/ UNCHANGED x_ramps
    /\ UNCHANGED <<display, ramp_size, saved_ramps, saved_content,
                   gamma_ramps, ret, temp, pc>>
    /\ VidmodeRest

\* vidmode_free: free saved ramps, close display connection.
VmFree ==
    /\ pc = "vm_ready"
    /\ saved_ramps' = "freed"
    /\ display' = "closed"
    /\ pc' = "vm_freed"
    /\ UNCHANGED <<ramp_size, saved_content, gamma_ramps, x_ramps, ret, temp>>
    /\ VidmodeRest

vidmode_init ==
    \/ VmOpenDisplay \/ VmQueryVersion \/ VmGetRampSize \/ VmCheckSize
    \/ VmAllocSaved \/ VmSaveRamps

vidmode_set_temperature == VmSetAlloc \/ VmSetRamp

VidmodeNext ==
    \/ vidmode_init
    \/ VmCallSetTemperature \/ vidmode_set_temperature
    \/ VmRestore \/ VmFree

VidmodeSpec == VidmodeInit /\ [][VidmodeNext]_vars

TypeOK ==
    /\ transition \in {0, 1}
    /\ exiting \in {0, 1} /\ disable \in {0, 1}
    /\ short_trans \in {0, 1} /\ short_trans_done \in {0, 1}
    /\ short_trans_create \in {0, 1} /\ short_trans_begin \in {0, 1}
    /\ short_trans_len \in {2, 10}
    /\ adjustment_alpha \in 0..AlphaOne
    /\ done \in {0, 1} /\ disabled \in {0, 1}
    /\ clock \in 0..MaxTime /\ now \in 0..MaxTime
    /\ short_trans_end \in 0..(MaxTime + 10)

\* ------------------------------------------------------------------ claims

Exited == pc \in {"freed", "exit_failure"}

\* C1: every exit path of the engine (normal completion, forced stop,
\* set_temperature failure, clock-read failure) ends with one restore
\* followed by one free: when the process has freed the backend, the two
\* last backend calls are restore, free.
C1_RestoreThenFreeOnEveryExit ==
    Exited => last_calls = <<"restore", "free">>

\* C2: the loop is left through the check "done && !short_trans" exactly
\* when done is set and no short transition is active; the engine then
\* calls restore, returns, and restore is the last backend call it made
\* (the only later call is main's free).
C2_ExitAfterDoneRestoreLast ==
    [][ /\ (pc = "interpolate" /\ pc' # pc) =>
              ((pc' = "final_restore") <=> (done = 1 /\ short_trans = 0))
        /\ (pc' = "final_restore" /\ pc' # pc) => pc = "interpolate"
        /\ (pc' = "returned" /\ pc' # pc) =>
              /\ pc = "final_restore"
              /\ last_calls'[2] = "restore"
              /\ iter_calls' = Append(iter_calls, "restore")
        /\ (pc = "returned") => last_calls'[2] \in {"restore", "free"}
      ]_vars

\* C2 witness: the engine has returned after a stop, the fade being over.
C2_Witness ==
    /\ pc = "returned" /\ done = 1 /\ short_trans = 0
    /\ last_calls = <<"set_temperature", "restore">>

\* C3: wherever adjustment_alpha is used to blend the temperature it lies
\* in [0, 1], whatever the elapsed time and the events polled.
C3_AlphaClamped ==
    pc = "interpolate" => (0 <= adjustment_alpha /\ adjustment_alpha <= AlphaOne)

\* C3 witness: a fade towards neutral after a disable event, read well
\* past its end, so that the unclamped fraction would exceed 1.
C3_Witness ==
    /\ pc = "interpolate" /\ disabled = 1 /\ short_trans_begin = 0
    /\ now > short_trans_end + 1
    /\ adjustment_alpha = AlphaOne
    /\ "restore" \in {iter_calls[i] : i \in 1..Len(iter_calls)}

\* C4: two stop events delivered while a short transition is active make
\* the engine terminate at once, for every interleaving of the deliveries
\* with the polling: once both have been delivered and the engine has reset
\* the exiting flag, it neither adjusts the temperature nor sleeps again.
C4_TwoStopsForceQuit ==
    (stops_in_fade >= 2 /\ exiting = 0) => pc \notin {"adjust", "sleep"}

IterCalls == {iter_calls[i] : i \in 1..Len(iter_calls)}

\* The fade has run out on this tick (always so without transitions).
PastFade == transition = 0 \/ (short_trans = 0 /\ now > short_trans_end)

\* The engine has polled disable events only, an even number (at least
\* two) of them: short_trans_len = 2 is set by an event only, done = 1 by
\* every stop event, and every disable event toggles disabled.
ReEnabled == done = 0 /\ disabled = 0 /\ short_trans_len = 2

\* C5: after a disable event and a second disable event (no stop event),
\* once the clock is past the fade the engine is enabled and steady with
\* fade fraction 0, and the temperature it applies is the computed target.
C5_DisableTwiceReturnsToTarget ==
    (ReEnabled /\ PastFade /\ pc = "sleep") =>
        /\ adjustment_alpha = 0
        /\ short_trans = 0
        /\ iter_calls = <<"set_temperature">>
        /\ temp = calculate_temp(elevation, temp_day, temp_night)

\* C5 witness: such a tick, with transitions on and a target other than
\* the neutral temperature.
C5_Witness ==
    /\ ReEnabled /\ pc = "sleep" /\ transition = 1
    /\ short_trans = 0 /\ now > short_trans_end
    /\ temp = DEFAULT_NIGHT_TEMP /\ adjustment_alpha = 0
    /\ iter_calls = <<"set_temperature">>

\* The engine is disabled and steady: the fade towards neutral is over and
\* its end has been handled.
SteadyDisabled ==
    /\ Running /\ transition = 1
    /\ disabled = 1 /\ done = 0
    /\ short_trans = 0 /\ short_trans_create = 0
    /\ ~(pc = "end_transition" /\ short_trans_done = 1)

\* C6: a disable event polled while enabled starts a 2-second short
\* transition towards neutral; the tick in which it completes calls restore
\* and from then on, until a further disable event is polled, no
\* set_temperature call is made: restore stays the last backend call.
C6_DisableFadeThenRestoreKept ==
    /\ (transition = 1 /\ disabled = 1 /\ short_trans = 1) =>
          /\ short_trans_len = 2 /\ short_trans_begin = 0
          /\ (pc \in {"ongoing", "end_transition", "interpolate", "adjust", "sleep"}
                => short_trans_end <= now + 2)
    /\ (pc = "sleep" /\ transition = 1 /\ disabled = 1 /\ short_trans = 0) =>
          "set_temperature" \notin IterCalls
    /\ SteadyDisabled => last_calls[2] = "restore"

\* C6 witness: a tick of the disabled steady state after the tick in which
\* the fade completed.
C6_Witness ==
    /\ SteadyDisabled /\ pc = "sleep" /\ iter_calls = <<>>
    /\ now > short_trans_end + 1
    /\ last_calls = <<"set_temperature", "restore">>

\* The first stop event has just been polled while the engine was enabled:
\* done is set and a 2-second short transition towards neutral is requested;
\* no further event is pending and the explored time outlasts the fade.
FirstStopPolledEnabled ==
    /\ pc = "read_time" /\ done = 1 /\ disabled = 0
    /\ short_trans_create = 1 /\ short_trans_begin = 0 /\ short_trans_len = 2
    /\ adjustment_alpha = AlphaOne
    /\ exiting = 0 /\ disable = 0
    /\ clock + 2 < MaxTime

\* C7: when the first stop event is polled while the engine is enabled,
\* done is set and a 2-second short transition towards neutral starts;
\* if the clock advances and no further control event arrives, the engine
\* eventually leaves the loop (it returns, or exits on a failed clock read
\* or a failed set_temperature).
C7_FirstStopFadesThenReturns ==
    /\ [][(pc = "handle_exiting" /\ pc' # pc /\ done = 0 /\ disabled = 0) =>
            /\ done' = 1 /\ short_trans_create' = 1
            /\ short_trans_begin' = 0 /\ short_trans_len' = 2]_vars
    /\ (FirstStopPolledEnabled ~>
            (pc \in {"returned", "exit_failure"} \/ exiting = 1 \/ disable = 1))

\* C7 witness: the engine returned after the fade started by the first
\* stop event ran to its end, no second stop event having been polled.
C7_Witness ==
    /\ pc = "returned" /\ done = 1 /\ disabled = 0 /\ transition = 1
    /\ short_trans_begin = 0 /\ short_trans_len = 2
    /\ now > short_trans_end /\ adjustment_alpha = AlphaOne
    /\ temp = NEUTRAL_TEMP
    /\ stops_in_fade <= 1

\* No control event has been polled so far (an event sets done, toggles
\* disabled or sets short_trans_len to 2).
NoEvents == done = 0 /\ disabled = 0 /\ short_trans_len = 10

Target == calculate_temp(elevation, temp_day, temp_night)

\* t is the integer part of alpha*6500 + (1-alpha)*target.
IsBlend(t, alpha, target) ==
    LET tenths == alpha * NEUTRAL_TEMP + (AlphaOne - alpha) * target
    IN  t * AlphaOne <= tenths /\ tenths < (t + 1) * AlphaOne

\* C8: with transitions on and no control events the engine starts with a
\* 10-second fade from neutral: the first tick applies 6500 K (fade
\* fraction 1), the fade fraction never increases from tick to tick, past
\* start + 10 s it is 0 and the target is applied, and every tick applies
\* alpha*6500 + (1-alpha)*target.  (slept = 0 during the first tick only,
\* which sets the fraction from its initial 0 to 1.)
C8_StartupFade ==
    /\ []((NoEvents /\ transition = 1 /\ pc = "sleep") =>
            /\ iter_calls = <<"set_temperature">>
            /\ IsBlend(temp, adjustment_alpha, Target)
            /\ short_trans_end = 10
            /\ adjustment_alpha = MAX(0, short_trans_end - now)
            /\ (last_calls[1] = "init" =>
                   adjustment_alpha = AlphaOne /\ temp = NEUTRAL_TEMP)
            /\ (now > short_trans_end =>
                   adjustment_alpha = 0 /\ temp = Target))
    /\ [][(NoEvents' /\ transition = 1 /\ slept # 0) =>
             adjustment_alpha' <= adjustment_alpha]_vars

\* C8 witness: a tick past the end of the startup fade that applies a
\* target other than neutral.
C8_Witness ==
    /\ NoEvents /\ transition = 1 /\ pc = "sleep"
    /\ now > short_trans_end /\ short_trans = 0
    /\ adjustment_alpha = 0 /\ temp = DEFAULT_DAY_TEMP
    /\ iter_calls = <<"set_temperature">>

\* C9: the signal handlers only set their flag: a step that raises exiting
\* or disable changes neither the other flag nor any variable of the
\* engine's transition state, wherever in the loop it happens.
C9_HandlersOnlySetFlag ==
    [][ /\ (exiting = 0 /\ exiting' = 1) =>
              UNCHANGED <<trans_state, disable, locals, backend, pc>>
        /\ (disable = 0 /\ disable' = 1) =>
              UNCHANGED <<trans_state, exiting, locals, backend, pc>>
      ]_vars

\* C9 witness: both handlers have run in the middle of an iteration, while
\* a short transition was being computed.
C9_Witness ==
    /\ exiting = 1 /\ disable = 1
    /\ pc = "ongoing" /\ short_trans = 1 /\ done = 0 /\ disabled = 0

\* C10: calculate_temp returns temp_day for every elevation >=
\* TRANSITION_HIGH and temp_night for every elevation < TRANSITION_LOW,
\* whichever of the two temperatures is larger.
C10_DayAboveHighNightBelowLow ==
    pc = "calc_done" =>
        /\ (elevation >= TRANSITION_HIGH => temp = temp_day)
        /\ (elevation < TRANSITION_LOW => temp = temp_night)

\* C10 witness: an elevation above TRANSITION_HIGH with the day temperature
\* below the night temperature.
C10_Witness ==
    /\ pc = "calc_done" /\ elevation > TRANSITION_HIGH
    /\ temp_day < temp_night /\ temp = temp_day

InBand(e) == TRANSITION_LOW <= e /\ e <= TRANSITION_HIGH

\* C11 (as stated): the interpolation fraction a is monotonic across the
\* transition band, 0 at elevation = TRANSITION_HIGH and 1 at elevation =
\* TRANSITION_LOW.
C11_FractionZeroAtHighOneAtLow ==
    /\ [](pc = "calc_done" =>
            /\ (elevation = TRANSITION_HIGH => FractionNum(elevation) = 0)
            /\ (elevation = TRANSITION_LOW => FractionNum(elevation) = FractionDen))
    /\ [][(pc = "calc_done" /\ InBand(elevation) /\ InBand(elevation')
           /\ elevation' >= elevation) =>
             FractionNum(elevation') >= FractionNum(elevation)]_vars

\* C11 (amended): the interpolation fraction a rises monotonically with the
\* elevation across the transition band, from 0 at elevation =
\* TRANSITION_LOW (the result is temp_night) to 1 at elevation =
\* TRANSITION_HIGH (the result is temp_day), and stays in [0, 1].
C11_FractionZeroAtLowOneAtHigh ==
    /\ [](pc = "calc_done" =>
            /\ (elevation = TRANSITION_LOW =>
                   FractionNum(elevation) = 0 /\ temp = temp_night)
            /\ (elevation = TRANSITION_HIGH =>
                   FractionNum(elevation) = FractionDen /\ temp = temp_day)
            /\ (InBand(elevation) =>
                   0 <= FractionNum(elevation)
                   /\ FractionNum(elevation) <= FractionDen))
    /\ [][(pc = "calc_done" /\ InBand(elevation) /\ InBand(elevation')
           /\ elevation' > elevation) =>
             FractionNum(elevation') > FractionNum(elevation)]_vars

\* C11 witness: calculate_temp evaluated at elevation = TRANSITION_LOW with
\* different day and night temperatures.
C11_Witness ==
    /\ pc = "calc_done" /\ elevation = TRANSITION_LOW
    /\ temp_day # temp_night /\ temp = temp_night

\* The scenario of C12: elevation -3 in a -6/3 band, night 3700 K, day
\* 5500 K.
MidBandScenario ==
    /\ pc = "calc_done" /\ elevation = 0 - 3
    /\ TRANSITION_LOW = 0 - 6 /\ TRANSITION_HIGH = 3
    /\ temp_night = 3700 /\ temp_day = 5500

\* C12 (as stated): in that scenario a = 1/3 and the target temperature
\* (1-a)*night + a*day is about 3967 K.
C12_MidBandGives3967 ==
    MidBandScenario =>
        /\ 3 * FractionNum(elevation) = FractionDen
        /\ 3966 <= temp /\ temp <= 3968

\* C12 (amended): in that scenario a = 1/3 and the target temperature
\* (1-a)*night + a*day = (2/3)*3700 + (1/3)*5500 is 4300 K.
C12_MidBandGives4300 ==
    MidBandScenario =>
        /\ 3 * FractionNum(elevation) = FractionDen
        /\ temp = 4300

\* C12 witness: the scenario has been computed.
C12_Witness == MidBandScenario /\ temp = 4300

InitFailed(i) == init_calls[i].ok = FALSE

\* init_method has left with exit(EXIT_FAILURE): no backend call of
\* do_oneshot was made before the failure.
InitFatal == pc = "exit_failure" /\ iter_calls = <<>>

PastInit == pc \in {"oneshot_time", "oneshot_calc", "oneshot_adjust",
                    "returned", "freed"}

\* C13: with a method requested, init_method calls only that backend's init
\* and a failure of it is fatal at once; with none requested the inits are
\* called in the order RandR, VidMode, WinGDI, none is called after a
\* success, the first that succeeds is selected, and the failure is fatal
\* only when all three have failed. Past init_method exactly one init has
\* succeeded and it is the selected method's.
C13_InitMethodSelection ==
    /\ requested >= 0 =>
          /\ Len(init_calls) <= 1
          /\ \A i \in 1..Len(init_calls) :
                /\ init_calls[i].m = requested
                /\ InitFailed(i) => InitFatal
    /\ requested < 0 =>
          /\ Len(init_calls) <= 3
          /\ \A i \in 1..Len(init_calls) :
                /\ init_calls[i].m =
                      <<GAMMA_METHOD_RANDR, GAMMA_METHOD_VIDMODE,
                        GAMMA_METHOD_WINGDI>>[i]
                /\ i < Len(init_calls) => InitFailed(i)
          /\ InitFatal =>
                Len(init_calls) = 3 /\ \A i \in 1..3 : InitFailed(i)
    /\ \A i \in 1..Len(init_calls) :
          ~InitFailed(i) => method = init_calls[i].m
    /\ PastInit =>
          /\ init_calls # <<>>
          /\ ~InitFailed(Len(init_calls))
          /\ Cardinality({i \in 1..Len(init_calls) : ~InitFailed(i)}) = 1

\* Probing found RandR failing and VidMode working: VidMode is selected and
\* WinGDI's init was not called.
C13_Witness ==
    /\ requested < 0 /\ PastInit
    /\ init_calls = <<[m |-> GAMMA_METHOD_RANDR, ok |-> FALSE],
                      [m |-> GAMMA_METHOD_VIDMODE, ok |-> TRUE]>>
    /\ method = GAMMA_METHOD_VIDMODE

\* C14: the sleep that ends an iteration lasts 100 ms exactly when a short
\* transition is active at that point and 5 s otherwise; from the step that
\* ends a transition to the sleep the transition stays inactive, so the
\* iteration in which a transition completes is followed by the 5 s sleep.
C14_SleepByTransition ==
    [][ /\ (pc = "sleep" /\ pc' = "poll_disable") =>
              /\ slept' = 100 <=> short_trans = 1
              /\ slept' = 5000 <=> short_trans = 0
        /\ (pc \in {"end_transition", "interpolate", "adjust"}) =>
              short_trans' = short_trans
        /\ (pc = "ongoing" /\ short_trans = 1 /\ short_trans' = 0) =>
              now > short_trans_end /\ short_trans_done' = 1 ]_vars

\* The startup fade has completed in the iteration that just ended (first
\* clock value past its end) and the engine has slept 5 s.
C14_Witness ==
    /\ pc = "poll_disable" /\ slept = 5000
    /\ transition = 1 /\ NoEvents
    /\ short_trans = 0 /\ short_trans_create = 0
    /\ adjustment_alpha = 0
    /\ clock = short_trans_end + 1

\* Position of main in one-shot mode, in program order.
OneShotRank(p) ==
    CASE p = "init_randr" -> 0
      [] p = "init_vidmode" -> 1
      [] p = "init_wingdi" -> 2
      [] p = "init_check" -> 3
      [] p = "oneshot_time" -> 4
      [] p = "oneshot_calc" -> 5
      [] p = "oneshot_adjust" -> 6
      [] p = "returned" -> 7
      [] p = "freed" -> 8
      [] OTHER -> 9

\* What one-shot mode has done so far: no restore, no flag set and no event
\* polled; the temperature is the target of the instant read, unblended; one
\* set_temperature at the return and set_temperature, free at the end.
OneShotOnce ==
    /\ "restore" \notin IterCalls
    /\ exiting = 0 /\ disable = 0 /\ polled = {}
    /\ pc \in {"oneshot_calc", "oneshot_adjust", "returned", "freed"} =>
          now = clock
    /\ pc \in {"oneshot_adjust", "returned", "freed"} =>
          temp = calculate_temp(elevation, temp_day, temp_night)
    /\ pc \in {"oneshot_time", "oneshot_calc", "oneshot_adjust"} =>
          iter_calls = <<>>
    /\ pc = "returned" => iter_calls = <<"set_temperature">>
    /\ pc = "freed" => iter_calls = <<"set_temperature", "free">>

\* C15: one-shot mode runs straight through (every step moves forward in
\* program order, so the clock is read once and the target computed once),
\* passes the unblended target to its single set_temperature call, never
\* calls restore, frees the backend, and acts on no signal.
C15_OneShotOnce ==
    [][ OneShotRank(pc') > OneShotRank(pc) /\ OneShotOnce' ]_vars

\* A one-shot run at night with the transition option left on: the night
\* temperature was set, not a blend with 6500 K, and the backend freed.
C15_Witness ==
    /\ pc = "freed" /\ transition = 1
    /\ iter_calls = <<"set_temperature", "free">>
    /\ elevation < TRANSITION_LOW
    /\ temp = temp_night /\ temp # NEUTRAL_TEMP

\* C16: an iteration in which the engine polled a stop event with done
\* already set leaves the loop at the check after the interpolation: it
\* reaches neither the set_temperature call nor the sleep, whatever else was
\* polled in it.
C16_SecondStopExitsSameIteration ==
    "stop_again" \in polled => pc \notin {"adjust", "sleep"}

\* C17: no delivered disable signal is lost: while a disable signal has been
\* delivered since the engine last read the flag, the flag is still set, so
\* that the next poll acts on it.
C17_NoSignalLost ==
    disable_unseen = 1 => disable = 1

\* The fade fraction of the first tick of a short transition that an event
\* polled in this iteration has started has just been computed; an earlier
\* tick exists.
NewFadeFirstTick ==
    /\ pc = "end_transition" /\ transition = 1 /\ slept # 0
    /\ short_trans = 1 /\ short_trans_end = now + short_trans_len
    /\ "disable" \in polled \/ ("stop" \in polled /\ disabled = 0)

\* C18: on the first tick of a short transition started by a disable,
\* enable or stop event the fade fraction equals the fraction of the
\* previous tick, also when the event interrupts a transition in flight.
C18_NoJumpAtNewFade ==
    NewFadeFirstTick => adjustment_alpha = alpha_before

\* C19: done, once set, is never cleared, and after the iteration that polled
\* the stop event no step moves the end time of the short transition later
\* (so that the loop exits within the 2 s of the stop fade).
C19_DoneFinalEndNotPostponed ==
    [][ /\ done = 1 => done' = 1
        /\ (done = 1 /\ "stop" \notin polled) =>
              short_trans_end' <= short_trans_end ]_vars

\* The engine has passed temp to set_temperature in this iteration.
TempPassed == "set_temperature" \in IterCalls /\ pc \in {"sleep", "exit_failure"}

\* C20: every temperature passed to set_temperature lies between the least
\* and the greatest of night temperature, day temperature and 6500 K, hence
\* in [MIN_TEMP, MAX_TEMP); inside the transition band the fraction of
\* calculate_temp lies in [0, 1].
C20_TempWithinBounds ==
    /\ TempPassed =>
          /\ MIN(MIN(temp_night, temp_day), NEUTRAL_TEMP) <= temp
          /\ temp <= MAX(MAX(temp_night, temp_day), NEUTRAL_TEMP)
          /\ MIN_TEMP <= temp /\ temp < MAX_TEMP
    /\ (pc \in {"ongoing", "end_transition", "interpolate", "adjust", "sleep"}
           /\ InBand(elevation)) =>
          0 <= FractionNum(elevation) /\ FractionNum(elevation) <= FractionDen

\* A blended temperature was passed inside the transition band: half way
\* through a fade, strictly between the interpolated target and 6500 K.
C20_Witness ==
    /\ TempPassed /\ pc = "sleep"
    /\ elevation = 0 - 3
    /\ 0 < adjustment_alpha /\ adjustment_alpha < AlphaOne
    /\ temp # NEUTRAL_TEMP /\ temp # Target
    /\ temp_day = MIN_TEMP

InLoop == pc \in {"poll_disable", "handle_disable", "poll_exiting",
                  "handle_exiting", "read_time", "setup", "ongoing",
                  "end_transition", "interpolate", "adjust", "sleep"}

\* C21: with the transition option off no short transition is ever active,
\* the fade fraction is 0 or 1, the iteration that polls the first stop
\* event leaves the loop, and while the engine stays disabled an iteration
\* that polled no control event issues no restore (the one restore of a
\* disable event is issued in the iteration that polled it).
C21_TransitionOff ==
    transition = 0 =>
        /\ short_trans = 0
        /\ adjustment_alpha \in {0, AlphaOne}
        /\ "stop" \in polled => pc \notin {"adjust", "sleep"}
        /\ (InLoop /\ polled = {}) => "restore" \notin IterCalls

\* The first stop event was polled in this iteration while the engine was
\* disabled with no short transition active, and no disable event with it.
StopWhileDisabledIdle ==
    "stop_idle" \in polled /\ "disable" \notin polled /\ disabled = 1

\* C22: the iteration that polls the first stop event while the engine is
\* disabled and idle starts no fade, calls neither set_temperature nor
\* any other backend function inside the loop and leaves the loop, the
\* final restore being its only backend call; with a disable fade still in
\* flight at the poll the loop is left only once the fade is over.
C22_StopWhileDisabled ==
    /\ StopWhileDisabledIdle =>
          /\ short_trans = 0
          /\ pc \notin {"adjust", "sleep"}
          /\ InLoop => iter_calls = <<>>
          /\ pc = "final_restore" => iter_calls = <<>>
          /\ pc = "returned" => iter_calls = <<"restore">>
    /\ ("stop" \in polled /\ "stop_idle" \notin polled /\ disabled = 1
           /\ pc = "final_restore") =>
          short_trans = 0 /\ now > short_trans_end

\* C23: when vidmode_init has returned -1 the display connection is not
\* open and no saved-ramp buffer remains allocated; when it has returned 0
\* the ramp size is positive and the buffer holds the ramps that were in
\* effect.
C23_InitReleasesOnFailure ==
    /\ pc = "vm_init_failed" =>
          /\ ret = 0 - 1
          /\ display # "open"
          /\ saved_ramps # "allocated"
    /\ pc \in {"vm_ready", "vm_set_alloc", "vm_set_ramp"} =>
          /\ display = "open"
          /\ ramp_size > 0
          /\ saved_ramps = "allocated" /\ saved_content = OriginalRamps

\* C24: vidmode_set_temperature returns -1 with nothing allocated when its
\* malloc fails; once the buffer is allocated it returns with the buffer
\* freed, -1 and the server's ramps untouched when the X request failed, 0
\* and the ramps of the requested temperature in effect otherwise; no step
\* of it touches the saved ramps.
C24_SetTemperatureFreesBuffer ==
    [][ /\ (pc = "vm_set_alloc" /\ pc' = "vm_ready") =>
              gamma_ramps' = "null" /\ ret' = 0 - 1
        /\ pc = "vm_set_ramp" =>
              /\ pc' = "vm_ready"
              /\ gamma_ramps = "allocated" /\ gamma_ramps' = "freed"
              /\ ret' \in {0 - 1, 0}
              /\ ret' = 0 - 1 => x_ramps' = x_ramps
              /\ ret' = 0 => x_ramps' = temp
        /\ pc \in {"vm_set_alloc", "vm_set_ramp"} =>
              /\ saved_ramps' = saved_ramps
              /\ saved_content' = saved_content
              /\ x_ramps' # x_ramps => (pc' = "vm_ready" /\ ret' = 0)
        /\ pc' = "vm_ready" => gamma_ramps' # "allocated" ]_vars

\* vidmode_set_temperature has returned -1 after a failed X request: the
\* buffer it allocated is freed, the ramps in effect are not those of the
\* requested temperature and the saved ramps still hold the original ones.
C24_Witness ==
    /\ pc = "vm_ready" /\ ret = 0 - 1
    /\ gamma_ramps = "freed"
    /\ temp = DEFAULT_NIGHT_TEMP /\ x_ramps = DEFAULT_DAY_TEMP
    /\ saved_ramps = "allocated" /\ saved_content = OriginalRamps

====
